---- MODULE Spec2Model ----
(***************************************************************************)
(* Timed multi-stream capture / rotation loop of the RealSense L515        *)
(* recording scripts: H_depth_ir_autosplit.py, H_rgb_ir.py,                *)
(* H_rgb_ir_depth.py and lossless_RGB_IR_depth.py.                         *)
(*                                                                         *)
(* One process run (a session) is a sequential program; its position is    *)
(* pc.  Statements of the loop body are separate steps, so that a          *)
(* KeyboardInterrupt can be observed between any two of them.  Time is     *)
(* counted in ticks of one frame period (1/FPS s); the numeric settings of *)
(* the scripts are scaled down (the source value is given beside each).    *)
(* The wall clock and the monotonic clock are taken to advance together    *)
(* (no clock step, no DST change) and are the single variable now.         *)
(***************************************************************************)
EXTENDS Integers, Sequences, FiniteSets

\* ---------------------------------------------------------------- settings
\* FPS = 30 in the source; one tick is one frame period, FPS ticks a second.
FPS == 2
\* BLOCK_SECONDS = FILE_PERIOD_MIN * 60 = 60, BLOCK_SEC = 60 in the source.
BLOCK_SECONDS == 2
\* SAVE_INTERVAL = 6 in the source: depth is kept every SAVE_INTERVAL-th tick.
SAVE_INTERVAL == 2
\* RGB_FPS = 6 in the source (lossless_RGB_IR_depth).
RGB_FPS == 1
\* QUEUE_SIZE = 32 in the source (capacity of rs.frame_queue).
QUEUE_SIZE == 2
\* wait_for_frames(timeout_ms=4000 / 3000 / 2000): the timeout, in ticks.
WaitTimeoutTicks == 2

\* ------------------------------------------------------------------ bounds
\* The clock stops advancing at MaxTime ticks.
MaxTime == 11
\* Number of process runs (sessions) that follow one another.
MaxSessions == 2
\* Length of a calendar day in seconds (86400, scaled).
DaySec == 4
\* Number of colour frames the driver thread delivers in one session.
MaxRgbFrames == 3
\* Pixels of a depth buffer handed to depth_to_8bit, and their largest value.
NPix == 3
MaxDepth == 3

Variants == {"H_depth_ir_autosplit", "H_rgb_ir", "H_rgb_ir_depth",
             "lossless_RGB_IR_depth"}

VARIABLES
    variant,        \* which script runs
    session,        \* number of the current process run
    pc,             \* position of the main thread
    now,            \* clock, in ticks
    pipe,           \* rs.pipeline: "off", "on", "stopped"
    color_sensor,   \* separately started colour sensor: "off", "on", "stopped"
    interrupted,    \* a user stop (Ctrl-C or 'q') has been observed
    stopAt,         \* the position at which it was observed
    unwinding,      \* KeyboardInterrupt is propagating through a finally
    exitCause,      \* "none", "interrupt", "init_failed"
    date,           \* date of the current block (day number)
    prefix,         \* prefix of the current block: <<day, second of day>>
    first_block,    \* H_rgb_ir, H_rgb_ir_depth
    last_info_date, \* H_depth_ir_autosplit, H_rgb_ir_depth; -1 is None
    info,           \* info files on disk: path -> sequence of session records
    ran,            \* <<session, date>> pairs that passed the info step
    sink,           \* state of the block's sinks: "none", "open", "closed"
    h5,             \* datasets of the block's HDF5 file
    video,          \* frames written to the block's video writers
    frames,         \* sub-frames of the bundle being processed
    frame_id, saved_depth, depth_idx, ir_count, rgb_count,
    block_start,    \* time the block's counters were reset
    firstWait,      \* no frame-wait has been issued yet in this block
    prefixes,       \* prefixes of the blocks of this run, in order
    completed,      \* blocks of this run closed by normal rotation
    runStart,       \* time the first block of this run began
    q_rgb,          \* rs.frame_queue filled by the driver callback
    rgb_frame,      \* result of the last poll_for_frame (0 is no frame)
    rgbSeq,         \* colour frames delivered by the driver so far
    rgbLog,         \* colour frames written to the RGB sinks of this run, in order
    d16,            \* depth_to_8bit: the 16-bit depth buffer passed in
    depth8          \* depth_to_8bit: the 8-bit buffer returned (<<>> before the call)

vars == <<variant, session, pc, now, pipe, color_sensor, interrupted, stopAt,
          unwinding, exitCause, date, prefix, first_block, last_info_date,
          info, ran, sink, h5, video, frames, frame_id, saved_depth,
          depth_idx, ir_count, rgb_count, block_start, firstWait, prefixes,
          completed, runStart, q_rgb, rgb_frame, rgbSeq, rgbLog, d16, depth8>>

\* ------------------------------------------------------------ pure helpers
\* Elements of a sequence.
Range(q) == {q[i] : i \in 1..Len(q)}

Lossless(v) == v = "lossless_RGB_IR_depth"

\* Rotation is driven by the clock (a timer compared with BLOCK_SECONDS).
TimeDriven(v) == v \in {"H_depth_ir_autosplit", "H_rgb_ir", "H_rgb_ir_depth"}

\* Sub-frames requested from the synchronized pipeline (cfg.enable_stream).
Requested(v) ==
    CASE v = "H_depth_ir_autosplit"  -> {"depth", "ir"}
      [] v = "H_rgb_ir"              -> {"ir", "color"}
      [] v = "H_rgb_ir_depth"        -> {"depth", "ir", "color"}
      [] v = "lossless_RGB_IR_depth" -> {"depth", "ir"}

\* Mutant of BundleComplete: only the IR sub-frame is tested.
BundleCompleteIrOnly(v, fs) == "ir" \in fs

\* The test that lets a bundle through ("if not dfrm or not ifrm: continue").
BundleComplete(v, fs) ==
    CASE v = "H_depth_ir_autosplit"  -> ~ ("depth" \notin fs \/ "ir" \notin fs)
      [] v = "H_rgb_ir"              -> ~ ("ir" \notin fs \/ "color" \notin fs)
      [] v = "H_rgb_ir_depth"        -> "depth" \in fs /\ "ir" \in fs /\ "color" \in fs
      [] v = "lossless_RGB_IR_depth" -> "depth" \in fs /\ "ir" \in fs

\* Sinks of a block in the order they are opened.
OpenOrder(v) ==
    CASE v = "H_depth_ir_autosplit"  -> <<"h5", "ir">>
      [] v = "H_rgb_ir"              -> <<"ir", "rgb">>
      [] v = "H_rgb_ir_depth"        -> <<"ir", "rgb", "h5">>
      [] v = "lossless_RGB_IR_depth" -> <<"ir", "rgb", "h5">>

\* Sinks of a block in the order they are closed.
CloseOrder(v) ==
    CASE v = "H_depth_ir_autosplit"  -> <<"h5", "ir">>
      [] v = "H_rgb_ir"              -> <<"ir", "rgb">>
      [] v = "H_rgb_ir_depth"        -> <<"h5", "ir", "rgb">>
      [] v = "lossless_RGB_IR_depth" -> <<"h5", "ir", "rgb">>

SinkSet(v) == {OpenOrder(v)[i] : i \in 1..Len(OpenOrder(v))}

\* Statements of the loop body after the bundle test, in program order.
Body(v) ==
    CASE v = "H_depth_ir_autosplit" ->
           <<"d_resize", "ts_resize", "d_write", "ts_write", "saved_inc",
             "ir_write", "preview", "fid_inc">>
      [] v = "H_rgb_ir" ->
           <<"ir_write", "rgb_write", "preview">>
      [] v = "H_rgb_ir_depth" ->
           <<"d_resize", "ts_resize", "d_write", "ts_write",
             "ir_write", "rgb_write", "preview", "fid_inc">>
      [] v = "lossless_RGB_IR_depth" ->
           <<"d_write", "ts_write", "didx_inc", "ir_write", "ir_inc",
             "rgb_poll", "rgb_write", "rgb_inc", "preview">>

BodySet(v) == {Body(v)[i] : i \in 1..Len(Body(v))}

\* The statement after p in the body; the loop test after the last one.
Succ(v, p) ==
    LET i == CHOOSE k \in 1..Len(Body(v)) : Body(v)[k] = p
    IN  IF i = Len(Body(v)) THEN "check" ELSE Body(v)[i + 1]

\* Mutant of SaveTick: the decimation test is dropped.
SaveTickAlways(fid) == TRUE

\* Decimation: "if frame_id % SAVE_INTERVAL == 0".
SaveTick(fid) == fid % SAVE_INTERVAL = 0

\* First statement run for a complete bundle.
FirstStmt(v, fid) ==
    IF v = "H_depth_ir_autosplit" /\ ~ SaveTick(fid) THEN "ir_write"
    ELSE Body(v)[1]

VISUALIZE(v) ==
    CASE v = "H_depth_ir_autosplit"  -> TRUE
      [] v = "H_rgb_ir"              -> TRUE
      [] v = "H_rgb_ir_depth"        -> FALSE
      [] v = "lossless_RGB_IR_depth" -> FALSE

\* The preview window is shown (and waitKey polled) on this tick.
PreviewShown(v, fid, didx) ==
    CASE v = "H_depth_ir_autosplit"  -> VISUALIZE(v) /\ SaveTick(fid)
      [] v = "H_rgb_ir"              -> VISUALIZE(v)
      [] v = "H_rgb_ir_depth"        -> VISUALIZE(v) /\ fid % 2 = 0
      [] v = "lossless_RGB_IR_depth" -> VISUALIZE(v) /\ didx % FPS = 0

\* Length of a block in ticks, and the rows of the fixed-size datasets.
BlockTicks == BLOCK_SECONDS * FPS
BlockRows  == FPS * BLOCK_SECONDS
RgbCap     == RGB_FPS * BLOCK_SECONDS

\* Mutant of ContinueBlock: the timer in ticks is compared with the duration
\* in seconds (a mix-up of units).
ContinueBlockUnits(v, t, start, didx) == t - start <= BLOCK_SECONDS

\* Mutant of ContinueBlock: the row count is tested with <= (one row more).
ContinueBlockOneMore(v, t, start, didx) ==
    IF Lossless(v) THEN didx <= BlockRows ELSE t - start <= BlockTicks

\* The loop test: TRUE when the in-block loop goes round again.
ContinueBlock(v, t, start, didx) ==
    CASE v = "H_depth_ir_autosplit"  -> ~ (t - start > BlockTicks)
      [] v = "H_rgb_ir"              -> t - start <= BlockTicks
      [] v = "H_rgb_ir_depth"        -> t - start <= BlockTicks
      [] v = "lossless_RGB_IR_depth" -> didx < BlockRows

\* Mutant of TimeoutTarget: the timeout propagates instead of "continue".
TimeoutRaises(v) == IF v = "lossless_RGB_IR_depth" THEN "exited" ELSE "outer_finally"

\* "except RsErr: continue": where a frame-wait timeout goes (the timeout is
\* taken to raise an exception of the class the script catches).
TimeoutTarget(v) == "check"

\* Where an incomplete bundle goes ("continue").
IncompleteTarget(v) == "check"

\* time.localtime() / strftime: seconds, day number, YYYYMMDD_HHMMSS.
Seconds(t)  == t \div FPS
DateOf(t)   == Seconds(t) \div DaySec
PrefixOf(t) == <<DateOf(t), Seconds(t) % DaySec>>

\* Order of prefixes as strings (date first, then time of day).
PrefixLess(a, b) == a[1] < b[1] \/ (a[1] = b[1] /\ a[2] < b[2])

\* Warm-up reads before capture (10 or 30 frames), in ticks.
WarmupTicks(v) == IF v = "H_depth_ir_autosplit" THEN 1 ELSE FPS

\* try / except / finally structure around each position.
LoopPcs(v) == {"check", "wait", "bundle"} \cup BodySet(v)

Region(v, p) ==
    CASE p \in {"start", "color_start", "warmup"} -> "pre"
      [] p \in LoopPcs(v) ->
           IF v = "H_depth_ir_autosplit" THEN "outer" ELSE "inner"
      [] OTHER -> IF Lossless(v) THEN "pre" ELSE "outer"

HasOuterTry(v) == ~ Lossless(v)

\* Where control goes when KeyboardInterrupt is raised at position p.
InterruptTarget(v, p) ==
    CASE Region(v, p) = "inner" -> "close"
      [] Region(v, p) = "outer" -> "outer_finally"
      [] Region(v, p) = "pre"   -> "exited"

\* open(path, "a") and open(path, "w") followed by the writes of one record.
OpenAppend(fs, path, rec) ==
    [p \in DOMAIN fs \cup {path} |->
        IF p = path
        THEN (IF path \in DOMAIN fs THEN Append(fs[path], rec) ELSE <<rec>>)
        ELSE fs[p]]

OpenWrite(fs, path, rec) ==
    [p \in DOMAIN fs \cup {path} |-> IF p = path THEN <<rec>> ELSE fs[p]]

\* Info path of a block: a daily file, or a file named after the prefix.
InfoPath(v, d, pfx) ==
    IF v = "H_depth_ir_autosplit" THEN <<d, "000_RUN_INFO">>
    ELSE <<d, pfx>>

\* Whether the info step of a block writes.
InfoDue(v, fb, last, d, fs, pfx) ==
    CASE v = "H_depth_ir_autosplit"  -> last # d
      [] v = "H_rgb_ir"              -> fb
      [] v = "H_rgb_ir_depth"        -> fb \/ last # d
      [] v = "lossless_RGB_IR_depth" -> InfoPath(v, d, pfx) \notin DOMAIN fs

\* Mutant of InfoWrite: every variant opens its info file with "w".
InfoWriteTruncating(v, fs, path, rec) == OpenWrite(fs, path, rec)

\* The info file is opened with "a" (000_RUN_INFO.txt) or with "w".
InfoWrite(v, fs, path, rec) ==
    IF v = "H_depth_ir_autosplit" THEN OpenAppend(fs, path, rec)
    ELSE OpenWrite(fs, path, rec)

\* rs.frame_queue.enqueue: a full queue drops its oldest frame.
Enqueue(q, f) ==
    IF Len(q) >= QUEUE_SIZE THEN Append(Tail(q), f) ELSE Append(q, f)

\* rs.frame_queue.poll_for_frame: returns at once, with the oldest queued
\* frame or with no frame (0); PollRest is the queue it leaves.
PollFrame(q) == IF q = <<>> THEN 0 ELSE Head(q)

\* Mutant of PollRest: the polled frame stays in the queue.
PollKeeps(q) == q

PollRest(q) == IF q = <<>> THEN q ELSE Tail(q)

\* Mutant of RgbWriteDue: the cap on the block's colour frames is dropped.
RgbWriteUncapped(f, cnt) == f # 0

\* "if rgb_frame and rgb_count < RGB_FPS * BLOCK_SEC".
RgbWriteDue(f, cnt) == f # 0 /\ cnt < RgbCap

\* ---------------------------------------------------------- depth_to_8bit
\* PCT_CLIP = 99: the percentile the depth preview is clipped at.
PCT_CLIP == 99

\* Mutant of Valid: the percentile is taken over every sample, zeros too.
ValidAll(d) == d

\* "valid = d16[d16 > 0]".
Valid(d) == SelectSeq(d, LAMBDA x : x > 0)

\* The k-th smallest element of q (k from 1).
KthSmallest(q, k) ==
    CHOOSE x \in Range(q) :
        /\ Cardinality({i \in 1..Len(q) : q[i] < x}) < k
        /\ k <= Cardinality({i \in 1..Len(q) : q[i] <= x})

\* 100 * np.percentile(q, pct) for a non-empty q, with numpy's linear
\* interpolation between the two order statistics around pct/100 * (n - 1).
Percentile100(q, pct) ==
    LET pos == pct * (Len(q) - 1)
        k   == pos \div 100
        r   == pos % 100
        lo  == KthSmallest(q, k + 1)
        hi  == IF k + 2 <= Len(q) THEN KthSmallest(q, k + 2) ELSE lo
    IN  100 * lo + r * (hi - lo)

\* 100 * vmax: "np.percentile(valid, PCT_CLIP) if valid.size else 1".
Vmax100(valid) ==
    IF valid # <<>> THEN Percentile100(valid, PCT_CLIP) ELSE 100 * 1

\* 100 * np.clip(d, 0, vmax).
Clip100(d, vmax100) ==
    LET low == IF 100 * d < 0 THEN 0 ELSE 100 * d
    IN  IF low > vmax100 THEN vmax100 ELSE low

\* One pixel of "clip(...) / vmax * 255" cast with astype(np.uint8), computed
\* in exact arithmetic. A zero divisor gives 0/0, not a number: -1 here.
Pixel8(d, vmax100) ==
    IF vmax100 = 0 THEN -1
    ELSE ((Clip100(d, vmax100) * 255) \div vmax100) % 256

depth_to_8bit(d) ==
    LET valid == Valid(d)
        vmax100 == Vmax100(valid)
    IN  [i \in 1..Len(d) |-> Pixel8(d[i], vmax100)]

NoSinks == [s \in {"h5", "ir", "rgb"} |-> "none"]
EmptyH5 == [rows_depth |-> 0, rows_ts |-> 0, written_depth |-> 0, written_ts |-> 0]
NoVideo == [ir |-> 0, rgb |-> 0]

\* -------------------------------------------------------------------- Init
ProcessStart ==
    /\ pc = "start"
    /\ pipe = "off" /\ color_sensor = "off"
    /\ interrupted = FALSE /\ stopAt = "none" /\ unwinding = FALSE
    /\ exitCause = "none"
    /\ date = -1 /\ prefix = <<-1, -1>>
    /\ first_block = TRUE /\ last_info_date = -1
    /\ sink = NoSinks /\ h5 = EmptyH5 /\ video = NoVideo
    /\ frames = {}
    /\ frame_id = 0 /\ saved_depth = 0 /\ depth_idx = 0
    /\ ir_count = 0 /\ rgb_count = 0
    /\ block_start = 0 /\ firstWait = FALSE
    /\ prefixes = <<>> /\ completed = 0 /\ runStart = -1
    /\ q_rgb = <<>> /\ rgb_frame = 0 /\ rgbSeq = 0 /\ rgbLog = <<>>

Init ==
    /\ variant \in Variants
    /\ session = 1
    /\ now = 0
    /\ info = <<>>
    /\ ran = {}
    /\ ProcessStart
    /\ d16 = <<>> /\ depth8 = <<>>


\* ------------------------------------------------------------ device start
\* init_pipe() / pipe.start(cfg) succeeds.
InitPipe ==
    /\ pc = "start"
    /\ pipe' = "on"
    /\ pc' = IF Lossless(variant) THEN "color_start" ELSE "warmup"
    /\ UNCHANGED <<d16, depth8, variant, session, now, color_sensor, interrupted, stopAt,
                   unwinding, exitCause, date, prefix, first_block,
                   last_info_date, info, ran, sink, h5, video, frames,
                   frame_id, saved_depth, depth_idx, ir_count, rgb_count,
                   block_start, firstWait, prefixes, completed, runStart,
                   q_rgb, rgb_frame, rgbSeq, rgbLog>>

\* No device, or the pipeline does not start: sys.exit(message).
InitPipeFail ==
    /\ pc = "start"
    /\ pc' = "exited"
    /\ exitCause' = "init_failed"
    /\ UNCHANGED <<d16, depth8, variant, session, now, pipe, color_sensor, interrupted,
                   stopAt, unwinding, date, prefix, first_block,
                   last_info_date, info, ran, sink, h5, video, frames,
                   frame_id, saved_depth, depth_idx, ir_count, rgb_count,
                   block_start, firstWait, prefixes, completed, runStart,
                   q_rgb, rgb_frame, rgbSeq, rgbLog>>

\* lossless_RGB_IR_depth: the colour sensor is opened and started on its own.
ColorStart ==
    /\ pc = "color_start"
    /\ color_sensor' = "on"
    /\ pc' = "warmup"
    /\ UNCHANGED <<d16, depth8, variant, session, now, pipe, interrupted, stopAt,
                   unwinding, exitCause, date, prefix, first_block,
                   last_info_date, info, ran, sink, h5, video, frames,
                   frame_id, saved_depth, depth_idx, ir_count, rgb_count,
                   block_start, firstWait, prefixes, completed, runStart,
                   q_rgb, rgb_frame, rgbSeq, rgbLog>>

\* No matching colour profile (next() raises) or open() fails: the process
\* ends with the exception; nothing stops the pipeline started before.
ColorStartFail ==
    /\ pc = "color_start"
    /\ pc' = "exited"
    /\ exitCause' = "init_failed"
    /\ UNCHANGED <<d16, depth8, variant, session, now, pipe, color_sensor, interrupted,
                   stopAt, unwinding, date, prefix, first_block,
                   last_info_date, info, ran, sink, h5, video, frames,
                   frame_id, saved_depth, depth_idx, ir_count, rgb_count,
                   block_start, firstWait, prefixes, completed, runStart,
                   q_rgb, rgb_frame, rgbSeq, rgbLog>>

\* Warm-up reads; the frames are discarded.
Warmup ==
    /\ pc = "warmup"
    /\ now + WarmupTicks(variant) <= MaxTime
    /\ now' = now + WarmupTicks(variant)
    /\ pc' = "block_begin"
    /\ UNCHANGED <<d16, depth8, variant, session, pipe, color_sensor, interrupted, stopAt,
                   unwinding, exitCause, date, prefix, first_block,
                   last_info_date, info, ran, sink, h5, video, frames,
                   frame_id, saved_depth, depth_idx, ir_count, rgb_count,
                   block_start, firstWait, prefixes, completed, runStart,
                   q_rgb, rgb_frame, rgbSeq, rgbLog>>

\* ------------------------------------------------------------ between blocks
\* now = time.localtime(); date, hour, prefix; directories are created.
BlockBegin ==
    /\ pc = "block_begin"
    /\ date' = DateOf(now)
    /\ prefix' = PrefixOf(now)
    /\ prefixes' = Append(prefixes, PrefixOf(now))
    /\ runStart' = IF prefixes = <<>> THEN now ELSE runStart
    /\ sink' = NoSinks /\ h5' = EmptyH5 /\ video' = NoVideo
    /\ pc' = "info"
    /\ UNCHANGED <<d16, depth8, variant, session, now, pipe, color_sensor, interrupted,
                   stopAt, unwinding, exitCause, first_block, last_info_date,
                   info, ran, frames, frame_id, saved_depth, depth_idx,
                   ir_count, rgb_count, block_start, firstWait, completed,
                   q_rgb, rgb_frame, rgbSeq, rgbLog>>

\* The session metadata step of a block.
WriteInfo ==
    /\ pc = "info"
    /\ LET due  == InfoDue(variant, first_block, last_info_date, date, info, prefix)
           path == InfoPath(variant, date, prefix)
       IN  /\ info' = IF due THEN InfoWrite(variant, info, path, session) ELSE info
           /\ first_block' =
                IF due /\ variant \in {"H_rgb_ir", "H_rgb_ir_depth"}
                THEN FALSE ELSE first_block
           /\ last_info_date' =
                IF due /\ variant \in {"H_depth_ir_autosplit", "H_rgb_ir_depth"}
                THEN date ELSE last_info_date
    /\ ran' = ran \cup {<<session, date>>}
    /\ pc' = "open"
    /\ UNCHANGED <<d16, depth8, variant, session, now, pipe, color_sensor, interrupted,
                   stopAt, unwinding, exitCause, date, prefix, sink, h5, video,
                   frames, frame_id, saved_depth, depth_idx, ir_count,
                   rgb_count, block_start, firstWait, prefixes, completed,
                   runStart, q_rgb, rgb_frame, rgbSeq, rgbLog>>

NumIn(order, st) == Cardinality({i \in 1..Len(order) : sink[order[i]] = st})

\* One sink of the block is opened (h5py.File(path, "w"), cv.VideoWriter).
OpenSink ==
    /\ pc = "open"
    /\ LET k == NumIn(OpenOrder(variant), "open") + 1
           s == OpenOrder(variant)[k]
       IN  /\ sink' = [sink EXCEPT ![s] = "open"]
           /\ h5' = IF s = "h5" /\ Lossless(variant)
                    THEN [EmptyH5 EXCEPT !.rows_depth = BlockRows,
                                         !.rows_ts = BlockRows]
                    ELSE h5
           /\ pc' = IF k = Len(OpenOrder(variant)) THEN "reset" ELSE "open"
    /\ UNCHANGED <<d16, depth8, variant, session, now, pipe, color_sensor, interrupted,
                   stopAt, unwinding, exitCause, date, prefix, first_block,
                   last_info_date, info, ran, video, frames, frame_id,
                   saved_depth, depth_idx, ir_count, rgb_count, block_start,
                   firstWait, prefixes, completed, runStart, q_rgb, rgb_frame,
                   rgbSeq, rgbLog>>

\* Per-block counters and the block timer are set; the loop is entered.
ResetCounters ==
    /\ pc = "reset"
    /\ saved_depth' = IF variant = "H_depth_ir_autosplit" THEN 0 ELSE saved_depth
    /\ frame_id' = IF variant = "H_rgb_ir_depth" THEN 0 ELSE frame_id
    /\ depth_idx' = IF Lossless(variant) THEN 0 ELSE depth_idx
    /\ ir_count' = IF Lossless(variant) THEN 0 ELSE ir_count
    /\ rgb_count' = IF Lossless(variant) THEN 0 ELSE rgb_count
    /\ block_start' = now
    /\ firstWait' = TRUE
    /\ pc' = "check"
    /\ UNCHANGED <<d16, depth8, variant, session, now, pipe, color_sensor, interrupted,
                   stopAt, unwinding, exitCause, date, prefix, first_block,
                   last_info_date, info, ran, sink, h5, video, frames,
                   prefixes, completed, runStart, q_rgb, rgb_frame, rgbSeq,
                   rgbLog>>


\* ----------------------------------------------------------------- in block
\* The loop test at the loop boundary.
CheckBlock ==
    /\ pc = "check"
    /\ pc' = IF ContinueBlock(variant, now, block_start, depth_idx)
             THEN "wait" ELSE "close"
    /\ UNCHANGED <<d16, depth8, variant, session, now, pipe, color_sensor, interrupted,
                   stopAt, unwinding, exitCause, date, prefix, first_block,
                   last_info_date, info, ran, sink, h5, video, frames,
                   frame_id, saved_depth, depth_idx, ir_count, rgb_count,
                   block_start, firstWait, prefixes, completed, runStart,
                   q_rgb, rgb_frame, rgbSeq, rgbLog>>

\* pipe.wait_for_frames(timeout_ms) raises after the timeout.
WaitTimeout ==
    /\ pc = "wait"
    /\ now + WaitTimeoutTicks <= MaxTime
    /\ now' = now + WaitTimeoutTicks
    /\ firstWait' = FALSE
    /\ frames' = {}
    /\ pc' = TimeoutTarget(variant)
    /\ UNCHANGED <<d16, depth8, variant, session, pipe, color_sensor, interrupted, stopAt,
                   unwinding, exitCause, date, prefix, first_block,
                   last_info_date, info, ran, sink, h5, video, frame_id,
                   saved_depth, depth_idx, ir_count, rgb_count, block_start,
                   prefixes, completed, runStart, q_rgb, rgb_frame, rgbSeq,
                   rgbLog>>

\* pipe.wait_for_frames returns a bundle holding the sub-frames fs.
WaitBundle ==
    /\ pc = "wait"
    /\ \E dt \in 1..WaitTimeoutTicks, fs \in (SUBSET Requested(variant)) \ {{}} :
         /\ now + dt <= MaxTime
         /\ now' = now + dt
         /\ frames' = fs
    /\ firstWait' = FALSE
    /\ pc' = "bundle"
    /\ UNCHANGED <<d16, depth8, variant, session, pipe, color_sensor, interrupted, stopAt,
                   unwinding, exitCause, date, prefix, first_block,
                   last_info_date, info, ran, sink, h5, video, frame_id,
                   saved_depth, depth_idx, ir_count, rgb_count, block_start,
                   prefixes, completed, runStart, q_rgb, rgb_frame, rgbSeq,
                   rgbLog>>

\* get_*_frame() and the test for missing sub-frames.
TestBundle ==
    /\ pc = "bundle"
    /\ pc' = IF BundleComplete(variant, frames)
             THEN FirstStmt(variant, frame_id)
             ELSE IncompleteTarget(variant)
    /\ UNCHANGED <<d16, depth8, variant, session, now, pipe, color_sensor, interrupted,
                   stopAt, unwinding, exitCause, date, prefix, first_block,
                   last_info_date, info, ran, sink, h5, video, frames,
                   frame_id, saved_depth, depth_idx, ir_count, rgb_count,
                   block_start, firstWait, prefixes, completed, runStart,
                   q_rgb, rgb_frame, rgbSeq, rgbLog>>

\* Effects of the body statements on the depth sink.
DepthResize(f) == [f EXCEPT !.rows_depth = @ + 1]
TsResize(f)    == [f EXCEPT !.rows_ts = @ + 1]
DepthWrite(f)  == [f EXCEPT !.written_depth = @ + 1]
TsWrite(f)     == [f EXCEPT !.written_ts = @ + 1]

\* One statement of the body that touches the HDF5 datasets.
H5Stmt ==
    /\ pc \in {"d_resize", "ts_resize", "d_write", "ts_write"}
    /\ h5' = CASE pc = "d_resize"  -> DepthResize(h5)
               [] pc = "ts_resize" -> TsResize(h5)
               [] pc = "d_write"   -> DepthWrite(h5)
               [] pc = "ts_write"  -> TsWrite(h5)
    /\ pc' = Succ(variant, pc)
    /\ UNCHANGED <<d16, depth8, variant, session, now, pipe, color_sensor, interrupted,
                   stopAt, unwinding, exitCause, date, prefix, first_block,
                   last_info_date, info, ran, sink, video, frames, frame_id,
                   saved_depth, depth_idx, ir_count, rgb_count, block_start,
                   firstWait, prefixes, completed, runStart, q_rgb, rgb_frame,
                   rgbSeq, rgbLog>>

\* One statement of the body that increments a counter.
CountStmt ==
    /\ pc \in {"saved_inc", "didx_inc", "ir_inc", "rgb_inc", "fid_inc"}
    /\ saved_depth' = IF pc = "saved_inc" THEN saved_depth + 1 ELSE saved_depth
    /\ depth_idx' = IF pc = "didx_inc" THEN depth_idx + 1 ELSE depth_idx
    /\ ir_count' = IF pc = "ir_inc" THEN ir_count + 1 ELSE ir_count
    /\ rgb_count' = IF pc = "rgb_inc" THEN rgb_count + 1 ELSE rgb_count
    /\ frame_id' = IF pc = "fid_inc" THEN frame_id + 1 ELSE frame_id
    /\ pc' = Succ(variant, pc)
    /\ UNCHANGED <<d16, depth8, variant, session, now, pipe, color_sensor, interrupted,
                   stopAt, unwinding, exitCause, date, prefix, first_block,
                   last_info_date, info, ran, sink, h5, video, frames,
                   block_start, firstWait, prefixes, completed, runStart,
                   q_rgb, rgb_frame, rgbSeq, rgbLog>>

\* writer.write(frame) on the IR writer.
IrWrite ==
    /\ pc = "ir_write"
    /\ video' = [video EXCEPT !.ir = @ + 1]
    /\ pc' = Succ(variant, pc)
    /\ UNCHANGED <<d16, depth8, variant, session, now, pipe, color_sensor, interrupted,
                   stopAt, unwinding, exitCause, date, prefix, first_block,
                   last_info_date, info, ran, sink, h5, frames, frame_id,
                   saved_depth, depth_idx, ir_count, rgb_count, block_start,
                   firstWait, prefixes, completed, runStart, q_rgb, rgb_frame,
                   rgbSeq, rgbLog>>

\* rgb_frame = q_rgb.poll_for_frame() and the test that guards the write.
RgbPoll ==
    /\ pc = "rgb_poll"
    /\ rgb_frame' = PollFrame(q_rgb)
    /\ q_rgb' = PollRest(q_rgb)
    /\ pc' = IF RgbWriteDue(PollFrame(q_rgb), rgb_count)
             THEN "rgb_write" ELSE "preview"
    /\ UNCHANGED <<d16, depth8, variant, session, now, pipe, color_sensor, interrupted,
                   stopAt, unwinding, exitCause, date, prefix, first_block,
                   last_info_date, info, ran, sink, h5, video, frames,
                   frame_id, saved_depth, depth_idx, ir_count, rgb_count,
                   block_start, firstWait, prefixes, completed, runStart,
                   rgbSeq, rgbLog>>

\* writer.write(frame) on the RGB writer: the bundle's colour frame, or the
\* polled frame in lossless_RGB_IR_depth.
RgbWrite ==
    /\ pc = "rgb_write"
    /\ video' = [video EXCEPT !.rgb = @ + 1]
    /\ rgbLog' = IF Lossless(variant) THEN Append(rgbLog, rgb_frame) ELSE rgbLog
    /\ pc' = Succ(variant, pc)
    /\ UNCHANGED <<d16, depth8, variant, session, now, pipe, color_sensor, interrupted,
                   stopAt, unwinding, exitCause, date, prefix, first_block,
                   last_info_date, info, ran, sink, h5, frames, frame_id,
                   saved_depth, depth_idx, ir_count, rgb_count, block_start,
                   firstWait, prefixes, completed, runStart, q_rgb, rgb_frame,
                   rgbSeq>>

\* The preview statement when 'q' is not pressed (or nothing is shown).
Preview ==
    /\ pc = "preview"
    /\ pc' = Succ(variant, pc)
    /\ UNCHANGED <<d16, depth8, variant, session, now, pipe, color_sensor, interrupted,
                   stopAt, unwinding, exitCause, date, prefix, first_block,
                   last_info_date, info, ran, sink, h5, video, frames,
                   frame_id, saved_depth, depth_idx, ir_count, rgb_count,
                   block_start, firstWait, prefixes, completed, runStart,
                   q_rgb, rgb_frame, rgbSeq, rgbLog>>

\* A user stop observed at position p: KeyboardInterrupt is raised there.
Stop(p) ==
    /\ interrupted' = TRUE
    /\ stopAt' = p
    /\ unwinding' = (InterruptTarget(variant, p) = "close")
    /\ pc' = InterruptTarget(variant, p)
    /\ exitCause' = IF InterruptTarget(variant, p) = "exited"
                    THEN "interrupt" ELSE exitCause
    /\ UNCHANGED <<d16, depth8, variant, session, now, pipe, color_sensor, date, prefix,
                   first_block, last_info_date, info, ran, sink, h5, video,
                   frames, frame_id, saved_depth, depth_idx, ir_count,
                   rgb_count, block_start, firstWait, prefixes, completed,
                   runStart, q_rgb, rgb_frame, rgbSeq, rgbLog>>

\* 'q' in the preview window: "raise KeyboardInterrupt".
PreviewQuit ==
    /\ pc = "preview"
    /\ PreviewShown(variant, frame_id, depth_idx)
    /\ Stop("preview")

\* Ctrl-C, at any position of the running process.
Interrupt ==
    /\ ~ interrupted
    /\ pc \notin {"exited", "outer_finally"}
    /\ Stop(pc)

\* -------------------------------------------------------------- block end
\* One sink of the block is closed: the end of a block, or the inner
\* finally while KeyboardInterrupt propagates.
CloseSink ==
    /\ pc = "close"
    /\ LET k    == NumIn(CloseOrder(variant), "closed") + 1
           s    == CloseOrder(variant)[k]
           last == k = Len(CloseOrder(variant))
       IN  /\ sink' = [sink EXCEPT ![s] = "closed"]
           /\ pc' = IF ~ last THEN "close"
                    ELSE IF ~ unwinding THEN "block_begin"
                    ELSE IF HasOuterTry(variant) THEN "outer_finally"
                    ELSE "exited"
           /\ completed' = IF last /\ ~ unwinding THEN completed + 1 ELSE completed
           /\ exitCause' = IF last /\ unwinding /\ ~ HasOuterTry(variant)
                           THEN "interrupt" ELSE exitCause
    /\ UNCHANGED <<d16, depth8, variant, session, now, pipe, color_sensor, interrupted,
                   stopAt, unwinding, date, prefix, first_block,
                   last_info_date, info, ran, h5, video, frames, frame_id,
                   saved_depth, depth_idx, ir_count, rgb_count, block_start,
                   firstWait, prefixes, runStart, q_rgb,
                   rgb_frame, rgbSeq, rgbLog>>

\* "except KeyboardInterrupt" and the outer finally: pipe.stop().
OuterFinally ==
    /\ pc = "outer_finally"
    /\ pipe' = "stopped"
    /\ unwinding' = FALSE
    /\ exitCause' = "interrupt"
    /\ pc' = "exited"
    /\ UNCHANGED <<d16, depth8, variant, session, now, color_sensor, interrupted, stopAt,
                   date, prefix, first_block, last_info_date, info, ran, sink,
                   h5, video, frames, frame_id, saved_depth, depth_idx,
                   ir_count, rgb_count, block_start, firstWait, prefixes,
                   completed, runStart, q_rgb, rgb_frame, rgbSeq, rgbLog>>

\* ------------------------------------------------------------ driver thread
\* The colour sensor's callback: "lambda f: q_rgb.enqueue(f)".
RgbCallback ==
    /\ color_sensor = "on"
    /\ pc # "exited"
    /\ rgbSeq < MaxRgbFrames
    /\ rgbSeq' = rgbSeq + 1
    /\ q_rgb' = Enqueue(q_rgb, rgbSeq + 1)
    /\ UNCHANGED <<d16, depth8, variant, session, pc, now, pipe, interrupted, stopAt,
                   unwinding, exitCause, date, prefix, first_block,
                   last_info_date, info, ran, sink, h5, video, frames,
                   frame_id, saved_depth, depth_idx, ir_count, rgb_count,
                   block_start, firstWait, prefixes, completed, runStart,
                   rgb_frame, rgbLog, color_sensor>>

\* ------------------------------------------------------------ next session
\* The script is started again after the process has ended; the files on
\* disk and the clock are what the earlier runs left.
Restart ==
    /\ pc = "exited"
    /\ session < MaxSessions
    /\ session' = session + 1
    /\ pc' = "start"
    /\ pipe' = "off" /\ color_sensor' = "off"
    /\ interrupted' = FALSE /\ stopAt' = "none" /\ unwinding' = FALSE
    /\ exitCause' = "none"
    /\ date' = -1 /\ prefix' = <<-1, -1>>
    /\ first_block' = TRUE /\ last_info_date' = -1
    /\ sink' = NoSinks /\ h5' = EmptyH5 /\ video' = NoVideo
    /\ frames' = {}
    /\ frame_id' = 0 /\ saved_depth' = 0 /\ depth_idx' = 0
    /\ ir_count' = 0 /\ rgb_count' = 0
    /\ block_start' = 0 /\ firstWait' = FALSE
    /\ prefixes' = <<>> /\ completed' = 0 /\ runStart' = -1
    /\ q_rgb' = <<>> /\ rgb_frame' = 0 /\ rgbSeq' = 0 /\ rgbLog' = <<>>
    /\ UNCHANGED <<d16, depth8, variant, now, info, ran>>

Next ==
    \/ InitPipe \/ InitPipeFail \/ ColorStart \/ ColorStartFail \/ Warmup
    \/ BlockBegin \/ WriteInfo \/ OpenSink \/ ResetCounters
    \/ CheckBlock \/ WaitTimeout \/ WaitBundle \/ TestBundle
    \/ H5Stmt \/ CountStmt \/ IrWrite \/ RgbPoll \/ RgbWrite
    \/ Preview \/ PreviewQuit \/ Interrupt
    \/ CloseSink \/ OuterFinally \/ RgbCallback \/ Restart

Spec == Init /\ [][Next]_vars

\* ------------------------------------------------- depth_to_8bit on its own
\* The function applied once to each depth buffer of NPix samples in
\* 0..MaxDepth, in a process of H_depth_ir_autosplit that does nothing else.
InitDepth ==
    /\ variant = "H_depth_ir_autosplit"
    /\ session = 1
    /\ now = 0
    /\ info = <<>>
    /\ ran = {}
    /\ ProcessStart
    /\ d16 \in [1..NPix -> 0..MaxDepth]
    /\ depth8 = <<>>

\* depth8 = depth_to_8bit(d16).
DepthTo8bit ==
    /\ depth8 = <<>>
    /\ d16 # <<>>
    /\ depth8' = depth_to_8bit(d16)
    /\ UNCHANGED <<d16, variant, session, pc, now, pipe, color_sensor,
                   interrupted, stopAt, unwinding, exitCause, date, prefix,
                   first_block, last_info_date, info, ran, sink, h5, video,
                   frames, frame_id, saved_depth, depth_idx, ir_count,
                   rgb_count, block_start, firstWait, prefixes, completed,
                   runStart, q_rgb, rgb_frame, rgbSeq, rgbLog>>

NextDepth == DepthTo8bit

SpecDepth == InitDepth /\ [][NextDepth]_vars


\* ================================================================== claims
Counters == <<frame_id, saved_depth, depth_idx, ir_count, rgb_count>>

\* The Ctrl-C / 'q' was observed in the recording loop (between blocks or
\* inside a block), not during device start or warm-up.
StoppedInLoop == interrupted /\ stopAt \notin {"none", "start", "color_start", "warmup"}

\* C1: when a user stop is observed while sinks of a block are open, every
\* sink opened for the block is closed before the process exits.
C1_SinksClosedOnStop ==
    (pc = "exited" /\ interrupted) => \A s \in SinkSet(variant) : sink[s] # "open"

\* C2: once the device session is started, a user stop observed between
\* blocks or inside a block leads to pipe.stop() (and the stop of the
\* separately started colour sensor) before the process exits.
C2_DeviceStoppedOnStop ==
    (pc = "exited" /\ StoppedInLoop) => (pipe = "stopped" /\ color_sensor # "on")

\* A frame-wait that times out (no bundle is returned, no stop observed).
C3_TimeoutStep ==
    (pc = "wait" /\ pc' # "wait" /\ frames' = {} /\ ~ interrupted')
        => (pc' = "check" /\ UNCHANGED <<sink, h5, video, pipe, exitCause, unwinding>>)

\* C3: a frame-wait timeout is never escalated: the step that times out goes
\* back to the loop test with nothing written and nothing closed, and once
\* the device has started the process leaves the capture loop only after a
\* user stop.
C3_TimeoutRetried ==
    /\ []((pc \in {"outer_finally", "exited"} /\ exitCause # "init_failed") => interrupted)
    /\ [][C3_TimeoutStep]_vars

\* C3 witness: a block was rotated, and in the next block a frame-wait has
\* timed out and the loop is about to wait again, with no user stop.
C3_Witness ==
    /\ pc = "wait" /\ ~ firstWait /\ frames = {} /\ ~ interrupted
    /\ completed >= 1 /\ video.ir = 0

\* The bundle in hand lacks one of the requested sub-frames.
IncompleteTick ==
    pc \in {"bundle"} \cup BodySet(variant) /\ Requested(variant) \ frames # {}

\* C4: when a bundle lacks one of the requested sub-frames, the tick writes
\* nothing to any sink and leaves every counter unchanged.
C4_IncompleteDiscarded ==
    [][IncompleteTick =>
         (UNCHANGED <<h5, video, rgbLog, Counters>> /\ pc' \notin BodySet(variant))]_vars

\* C4 witness: an incomplete bundle has been discarded in a block that had
\* already written frames, and the loop is back at its test.
C4_Witness ==
    /\ pc = "check" /\ frames # {} /\ Requested(variant) \ frames # {}
    /\ video.ir >= 1 /\ ~ interrupted

\* C5: whenever a block's HDF5 file is closed, the 'depth' dataset has as
\* many rows as 'ts' has entries and every depth row has its timestamp.
C5_DepthTsPaired ==
    sink["h5"] = "closed" =>
        (h5.rows_depth = h5.rows_ts /\ h5.written_depth = h5.written_ts)

\* C6: in H_depth_ir_autosplit, a block closed by rotation after M complete
\* bundles holds floor(M / SAVE_INTERVAL) plus or minus 1 depth records, in
\* every block of the run.
C6_DecimatedCount ==
    (variant = "H_depth_ir_autosplit" /\ pc = "close") =>
        /\ saved_depth >= (video.ir \div SAVE_INTERVAL) - 1
        /\ saved_depth <= (video.ir \div SAVE_INTERVAL) + 1
        /\ h5.rows_depth = saved_depth

\* C6 witness: a later block, started out of phase with the decimation,
\* closes after exactly F*D complete bundles.
C6_Witness ==
    /\ variant = "H_depth_ir_autosplit" /\ pc = "close"
    /\ completed >= 1
    /\ video.ir = FPS * BLOCK_SECONDS
    /\ (frame_id - video.ir) % SAVE_INTERVAL # 0

\* The counters at the block's first frame-wait, and across a step in a block.
C7_ZeroAtFirstWait ==
    (pc = "wait" /\ firstWait) =>
        (frame_id = 0 /\ saved_depth = 0 /\ depth_idx = 0 /\ ir_count = 0 /\ rgb_count = 0)

C7_Monotonic ==
    pc \in LoopPcs(variant) =>
        /\ frame_id' >= frame_id /\ saved_depth' >= saved_depth
        /\ depth_idx' >= depth_idx /\ ir_count' >= ir_count
        /\ rgb_count' >= rgb_count

\* C7: every per-stream frame counter is zero when the block's first
\* frame-wait is issued and never decreases while the block is open.
C7_CountersResetAndMonotonic ==
    [] C7_ZeroAtFirstWait /\ [][C7_Monotonic]_vars


PrefixesIncreasing ==
    \A i \in 1..Len(prefixes) : \A j \in 1..Len(prefixes) :
        i < j => PrefixLess(prefixes[i], prefixes[j])

\* C8 as stated: a run interrupted after T has floor(T/D) completed blocks
\* plus one partial block, with strictly increasing prefixes.
C8_BlockCountExact ==
    (pc = "exited" /\ interrupted /\ prefixes # <<>>) =>
        /\ completed = (now - runStart) \div BlockTicks
        /\ Len(prefixes) = completed + 1
        /\ PrefixesIncreasing

\* C8 amended: in the time-driven variants a run that has lasted T has
\* completed at most floor(T/D) blocks, every run has at most one partial
\* block, and the prefixes of successive blocks are strictly increasing (so
\* no block reopens a path of an earlier block of the run).
C8_BlockCountBounded ==
    /\ (TimeDriven(variant) /\ prefixes # <<>>) =>
           completed * BlockTicks <= now - runStart
    /\ Len(prefixes) \in {completed, completed + 1}
    /\ PrefixesIncreasing

\* C8 witness: a time-driven run stopped in its third block, which began
\* on the day after the first one, after two completed blocks.
C8_Witness ==
    /\ TimeDriven(variant) /\ pc = "exited" /\ interrupted
    /\ completed = 2 /\ Len(prefixes) = 3
    /\ prefixes[1][1] < prefixes[3][1]

\* A loop test taken after the block duration has elapsed leaves the loop.
C9_ExitAtTest ==
    (pc = "check" /\ now - block_start > BlockTicks /\ pc' # "check" /\ ~ interrupted')
        => pc' = "close"

\* C9: once the time since the block's start exceeds the block duration,
\* the in-block loop exits at its next loop test (and the block's sinks are
\* closed), also when no complete bundle arrived during the block.
C9_RotatesWhenElapsed == [][C9_ExitAtTest]_vars

\* Records of session s in the info files of day d.
RecordsOn(d, s) ==
    Cardinality({x \in UNION {{<<p, i>> : i \in 1..Len(info[p])} : p \in DOMAIN info} :
                    x[1][1] = d /\ info[x[1]][x[2]] = s})

IsPrefixOf(a, b) == Len(a) <= Len(b) /\ \A i \in 1..Len(a) : a[i] = b[i]

\* A step keeps every info file and every record already in it.
C10_NoTruncation ==
    \A p \in DOMAIN info : p \in DOMAIN info' /\ IsPrefixOf(info[p], info'[p])

StartDay(s) == CHOOSE d \in {r[2] : r \in {q \in ran : q[1] = s}} :
                   \A r \in ran : r[1] = s => d <= r[2]

\* Records per session and day, by the variant's info policy.
C10_RecordsState ==
    /\ \A r \in ran : RecordsOn(StartDay(r[1]), r[1]) >= 1
    /\ variant \in {"H_depth_ir_autosplit", "H_rgb_ir_depth"} =>
           \A r \in ran : RecordsOn(r[2], r[1]) = 1
    /\ variant = "H_rgb_ir" =>
           \A r \in ran : /\ RecordsOn(StartDay(r[1]), r[1]) = 1
                          /\ r[2] # StartDay(r[1]) => RecordsOn(r[2], r[1]) = 0

InfoDays(s) ==
    {p[1] : p \in {q \in DOMAIN info : \E i \in 1..Len(info[q]) : info[q][i] = s}}

\* A block start that creates or modifies an info file is the first block
\* of the run, or a block on a date no metadata of this run was written on.
C11_WriteStep ==
    (pc = "info" /\ info' # info) =>
        (Len(prefixes) = 1 \/ date \notin InfoDays(session))

\* C11: within one run, session metadata is written at a block start only
\* at the first block of the run or at the first block of a new date; at
\* every other block start no info file is created or modified.
C11_InfoOnlyFirstOrNewDate == [][C11_WriteStep]_vars

\* Colour frames and processed ticks of the open block.
C12_RgbState ==
    Lossless(variant) =>
        /\ rgb_count <= RgbCap /\ video.rgb <= RgbCap
        /\ video.rgb <= video.ir
        /\ pc \in LoopPcs(variant) =>
               (rgb_count <= video.rgb /\ video.rgb <= rgb_count + 1)

\* The poll of the main loop takes no time and goes on to the write or past
\* it; writes to the RGB sink come one at a time, from the write statement.
C12_PollStep ==
    /\ (pc = "rgb_poll" /\ pc' # pc /\ ~ interrupted')
           => (now' = now /\ pc' \in {"rgb_write", "preview"}
               /\ video' = video /\ rgb_count' = rgb_count)
    /\ (Lossless(variant) /\ video'.rgb > video.rgb)
           => (pc = "rgb_write" /\ pc' = "rgb_inc" /\ video'.rgb = video.rgb + 1)

\* C12: in lossless_RGB_IR_depth each processed tick polls the colour queue
\* without blocking and writes at most one colour frame, and in every block
\* rgb_count never exceeds RGB_FPS * BLOCK_SEC, whatever the rate at which
\* the driver callback enqueues frames.
C12_RgbAtMostOneAndCapped == [] C12_RgbState /\ [][C12_PollStep]_vars

\* C12 witness: the block has its RGB_FPS * BLOCK_SEC colour frames, and a
\* further frame was polled from the queue and not written.
C12_Witness ==
    /\ Lossless(variant) /\ pc = "preview"
    /\ rgb_count = RgbCap /\ video.rgb = RgbCap
    /\ rgb_frame # 0 /\ rgb_frame \notin Range(rgbLog)

\* The buffer holds only zeros.
AllZero(d) == \A i \in 1..Len(d) : d[i] = 0

\* C13: depth_to_8bit applied to an all-zero 16-bit depth buffer returns an
\* all-zero 8-bit buffer: the percentile population (the strictly positive
\* samples) is empty, the divisor defaults to 1, and no division by zero
\* occurs (for no buffer is the divisor zero or a pixel not a number).
C13_ZeroBufferGivesZero ==
    /\ Vmax100(Valid(d16)) > 0
    /\ depth8 # <<>> =>
           /\ Len(depth8) = Len(d16)
           /\ \A i \in 1..Len(depth8) : depth8[i] \in 0..255
    /\ (depth8 # <<>> /\ AllZero(d16)) =>
           /\ Valid(d16) = <<>>
           /\ Vmax100(Valid(d16)) = 100 * 1
           /\ AllZero(depth8)

\* C13 witness: the function has returned for the all-zero buffer.
C13_Witness ==
    /\ d16 = [i \in 1..NPix |-> 0]
    /\ depth8 = [i \in 1..NPix |-> 0]

\* C14: when no device is detected or the device does not start with the
\* requested configuration (the separately opened colour-sensor profile
\* included), the process exits before any capture: no block was opened, no
\* sink and no info file was created, and no started device session is left
\* running.
C14_StartFailureAbortsCleanly ==
    exitCause = "init_failed" =>
        /\ pc = "exited"
        /\ prefixes = <<>>
        /\ \A s \in DOMAIN sink : sink[s] = "none"
        /\ InfoDays(session) = {}
        /\ pipe # "on" /\ color_sensor # "on"

\* Frames in the RGB sinks against the frames the callback has enqueued.
C15_WrittenWereEnqueued ==
    Lossless(variant) =>
        /\ Range(rgbLog) \subseteq 1..rgbSeq
        /\ \A i \in 1..Len(rgbLog) : \A j \in 1..Len(rgbLog) :
               i < j => rgbLog[i] < rgbLog[j]
        /\ Range(rgbLog) \cap Range(q_rgb) = {}
        /\ Len(rgbLog) >= video.rgb

\* The main loop never waits for a colour frame: its poll can be taken
\* whatever the queue holds, and with an empty queue it goes straight on.
C15_PollNeverWaits ==
    (Lossless(variant) /\ pc = "rgb_poll") =>
        /\ ENABLED RgbPoll
        /\ q_rgb = <<>> => ENABLED (RgbPoll /\ pc' = "preview" /\ now' = now)

\* C15: in lossless_RGB_IR_depth, under every interleaving of the driver
\* thread's enqueues with the main loop's polls, every colour frame written
\* to an RGB sink was enqueued earlier by the callback, is written at most
\* once, and frames are written in the order they were enqueued; and the
\* block's progress to DEPTH_FPS * BLOCK_SEC depth rows does not wait for
\* any colour frame.
C15_RgbQueueOrdered == C15_WrittenWereEnqueued /\ C15_PollNeverWaits

\* C15 witness: the queue overflowed and lost its oldest frame, the two
\* frames after it were written in order, in a block that went on.
C15_Witness ==
    /\ Lossless(variant) /\ pc = "check" /\ ~ interrupted
    /\ rgbSeq = 3 /\ rgbLog = <<2, 3>>

\* A state of an open block of lossless_RGB_IR_depth, and a block being
\* closed by normal rotation.
InLosslessBlock == Lossless(variant) /\ pc \in LoopPcs(variant) \cup {"close"}
RotationClose == Lossless(variant) /\ pc = "close" /\ ~ unwinding

\* Range of depth_idx, the index of the dataset writes, rows at rotation.
C16_RowsInRange ==
    /\ InLosslessBlock => (0 <= depth_idx /\ depth_idx <= BlockRows)
    /\ (Lossless(variant) /\ pc \in {"d_write", "ts_write"}) =>
           (depth_idx < BlockRows /\ depth_idx < h5.rows_depth
            /\ depth_idx < h5.rows_ts)
    /\ RotationClose =>
           (depth_idx = BlockRows /\ h5.written_depth = BlockRows
            /\ h5.written_ts = BlockRows)

\* C16 as stated: in every state of a block 0 <= depth_idx <= DEPTH_FPS *
\* BLOCK_SEC and ir_count = depth_idx; every dataset write uses an index
\* below DEPTH_FPS * BLOCK_SEC; a block closed by rotation has exactly
\* DEPTH_FPS * BLOCK_SEC written depth rows.
C16_IrCountEqualsDepthIdx ==
    /\ C16_RowsInRange
    /\ InLosslessBlock => ir_count = depth_idx

\* The statements between "depth_idx += 1" and "ir_count += 1" of a tick.
BetweenIncrements(p) == p \in {"ir_write", "ir_inc"}

\* C16 amended: ir_count = depth_idx at every loop test and frame-wait and
\* at rotation; depth_idx is one ahead of ir_count only between the two
\* increments of a tick, or in the finally of a stop observed there; the
\* range of depth_idx, the write index and the rows at rotation as stated.
C16_IrCountWithinOne ==
    /\ C16_RowsInRange
    /\ InLosslessBlock =>
           \/ ir_count = depth_idx
           \/ /\ depth_idx = ir_count + 1
              /\ \/ BetweenIncrements(pc)
                 \/ (pc = "close" /\ unwinding /\ BetweenIncrements(stopAt))
    /\ RotationClose => ir_count = BlockRows

\* C16 witness: the second block of a run is being closed by rotation with
\* its DEPTH_FPS * BLOCK_SEC rows written.
C16_Witness ==
    /\ RotationClose /\ completed >= 1
    /\ depth_idx = BlockRows /\ h5.written_depth = BlockRows

====
